---- MODULE Spec2Model ----
(***************************************************************************)
(* GPX Navigator: the navigation controller (App.tsx, NavigatorApp), and   *)
(* the pure functions parseGpxXml, boundingRegion (src/gpx.ts) and         *)
(* fmtSpeed (App.tsx), each followed on its own through one call.          *)
(*                                                                         *)
(* React state is modelled with an atomic commit: a setState call and the  *)
(* render/commit it causes (cleanup of the previous [mode] effect, start   *)
(* of the next one) are one step, so a handler's closure holds the state   *)
(* of the moment it was invoked.  Every await is a step boundary: the      *)
(* continuation of each asynchronous call is its own action, and           *)
(* continuations of different invocations interleave freely.               *)
(* Optional values (null | v) are <<>> | <<v>>.                            *)
(*                                                                         *)
(* Collaborators: a subscription delivers no fix after remove(); the       *)
(* services and permission queries resolve (only watchPositionAsync, the   *)
(* file read and the XML decoder are followed into their failure).         *)
(***************************************************************************)
EXTENDS Integers, Sequences, FiniteSets, TLC

\* ---- bounds ------------------------------------------------------------
MaxAttempts == 1      \* startNavigation invocations in flight at once
MaxEffects == 2       \* drive-mode effect instances alive at once

\* ---- values ------------------------------------------------------------
None == <<>>
Some(v) == <<v>>

MsgServicesOff == "Location services are OFF. Enable GPS/location services and try again."
MsgPermissionDenied == "Location permission denied"
MsgGpsError == "GPS error"
MsgNoUri == "No file URI returned"
MsgNoPoints == "No route points found in GPX"
MsgLoadFailed == "Failed to load GPX"

\* LatLng points and the results parseGpxXml can hand to pickGpx.
P1 == [latitude |-> 2, longitude |-> 2]
P2 == [latitude |-> 4, longitude |-> 6]
ParsedResults ==
  { [name |-> None, points |-> <<>>],
    [name |-> Some("Morning ride"), points |-> <<P1>>],
    [name |-> None, points |-> <<P1, P2>>] }

\* Live fixes delivered by the position source (coords.speed may be null).
Fixes ==
  { [latitude |-> 2, longitude |-> 2, speed |-> Some(5)],
    [latitude |-> 4, longitude |-> 6, speed |-> None] }

Attempts == 1..MaxAttempts
Effects == 1..MaxEffects

VARIABLES
  routeName, route, mode, locPerm, location, speedMs, gpsError,
  servicesEnabled, loadingGpx, gpxError,   \* useState cells
  mounted,        \* NavigatorApp is mounted (mapRef.current is set)
  camera,         \* animateCamera sink: the last command's center, and a
                  \* bit that every command flips
  fit,            \* animateToRegion sink: the region of the last command
  att,            \* startNavigation invocations
  eff,            \* instances of the [mode] effect that ran with mode = drive
  pick,           \* the pickGpx invocation: where it is suspended, else how
                  \* the last one ended
  initPerm,       \* the mount-time permission effect
  call            \* the call of a pure function (parseGpxXml, boundingRegion,
                  \* fmtSpeed) that is followed on its own: its argument
                  \* and, once it has returned, its result

vars == <<routeName, route, mode, locPerm, location, speedMs, gpsError,
          servicesEnabled, loadingGpx, gpxError, mounted, camera, fit,
          att, eff, pick, initPerm, call>>

\* A startNavigation invocation: where it is suspended, the gpsError of the
\* render whose closure it is, and what its two checks reported.
IdleAttempt == [pc |-> "idle", gpsError |-> None,
                enabled |-> FALSE, granted |-> FALSE, ok |-> FALSE]
\* An instance of the [mode] effect: where its async body is suspended
\* ("open": watchPositionAsync resolved and sub holds the subscription),
\* whether its cleanup has run, the mode of its closure.
FreeEffect == [pc |-> "free", cleaned |-> FALSE, enabled |-> FALSE,
               mode |-> "drive"]

\* The controller after construction (useState initial values, lines 28-40).
Mounted ==
  /\ routeName = None
  /\ route = <<>>
  /\ mode = "browse"
  /\ locPerm = "unknown"
  /\ location = None
  /\ speedMs = None
  /\ gpsError = None
  /\ servicesEnabled = None
  /\ loadingGpx = FALSE
  /\ gpxError = None
  /\ mounted = TRUE
  /\ camera = [flip |-> FALSE, center |-> None]
  /\ fit = None
  /\ att = [a \in Attempts |-> IdleAttempt]
  /\ eff = [e \in Effects |-> FreeEffect]
  /\ pick = "idle"
  /\ initPerm = "perm"

\* No pure call is followed on its own.
NoCall == [fn |-> "none", arg |-> None, ret |-> None]

Init == Mounted /\ call = NoCall

\* ---- pure helpers ------------------------------------------------------

\* boundingRegion (src/gpx.ts, lines 61-83): null for no points, else the
\* midpoint of min/max per axis and the padded spans.  Coordinates of points
\* are whole degrees; the fields of a region are in hundredths of a degree,
\* in which the halving and the factor 1.4 are exact and 0.01 is 1.
RECURSIVE MinOf(_), MaxOf(_)
MinOf(s) == IF Len(s) = 1 THEN s[1]
            ELSE LET m == MinOf(Tail(s)) IN IF s[1] < m THEN s[1] ELSE m
MaxOf(s) == IF Len(s) = 1 THEN s[1]
            ELSE LET m == MaxOf(Tail(s)) IN IF s[1] > m THEN s[1] ELSE m
\* Math.max(a, b)
MathMax(a, b) == IF a > b THEN a ELSE b

\* Mutant of boundingRegion: the spans have no floor.
boundingRegionNoFloor(points) ==
  IF Len(points) = 0 THEN None
  ELSE LET lats == [i \in 1..Len(points) |-> points[i].latitude]
           lons == [i \in 1..Len(points) |-> points[i].longitude]
       IN Some([latitude |-> ((MinOf(lats) + MaxOf(lats)) * 100) \div 2,
                longitude |-> ((MinOf(lons) + MaxOf(lons)) * 100) \div 2,
                latitudeDelta |-> (MaxOf(lats) - MinOf(lats)) * 140,
                longitudeDelta |-> (MaxOf(lons) - MinOf(lons)) * 140])

boundingRegion(points) ==
  IF Len(points) = 0 THEN None
  ELSE LET lats == [i \in 1..Len(points) |-> points[i].latitude]
           lons == [i \in 1..Len(points) |-> points[i].longitude]
       IN Some([latitude |-> ((MinOf(lats) + MaxOf(lats)) * 100) \div 2,
                longitude |-> ((MinOf(lons) + MaxOf(lons)) * 100) \div 2,
                latitudeDelta |->
                  MathMax(1, (MaxOf(lats) - MinOf(lats)) * 140),
                longitudeDelta |->
                  MathMax(1, (MaxOf(lons) - MinOf(lons)) * 140)])

\* mapRef.current?.animateCamera(...): one more command, centered on c.
Center(c) == [latitude |-> c.latitude, longitude |-> c.longitude]
animateCamera(c) == [flip |-> ~camera.flip, center |-> Some(Center(c))]
\* The immediate camera move of startNavigation is centered on the closure's
\* location, else on its region (never null: the route is not empty); which
\* of the two is not followed here.
StartView == [latitude |-> 0, longitude |-> 0]

\* Mutant of PermissionOk: the result of the services query is dropped.
PermissionOkIgnoresServices(status, enabled) == status = "granted"

\* requestLocationPermission's return value (line 62).
PermissionOk(status, enabled) == status = "granted" /\ enabled

\* setLocPerm argument (line 61).
PermOf(status) == IF status = "granted" THEN "granted" ELSE "denied"

\* ---- the [mode] effect: commit of a mode change --------------------------

\* Slots holding no instance of the effect.
FreeSlots == {e \in Effects : eff[e].pc = "free"}

\* Mutant of CleanupInstance: an open subscription is not removed but kept
\* for the next Drive period.
CleanupInstanceKeepsOpen(r) ==
  IF r.pc \in {"noPerm", "failed"} THEN FreeEffect
  ELSE IF r.pc = "open" THEN r
  ELSE [r EXCEPT !.cleaned = TRUE]

\* Effect cleanup (lines 193-196): sub?.remove(); sub = null.  An instance
\* whose subscription is open is removed; one that has ended holds nothing;
\* one whose async body is still awaiting has sub = null, so nothing is
\* removed and its body goes on.
CleanupInstance(r) ==
  IF r.pc \in {"open", "noPerm", "failed"} THEN FreeEffect
  ELSE [r EXCEPT !.cleaned = TRUE]
Cleanup(effs) ==
  [e \in Effects |-> IF effs[e].pc # "free" /\ ~effs[e].cleaned
                     THEN CleanupInstance(effs[e]) ELSE effs[e]]

\* Effect body up to its first await (lines 152-160), run with the locPerm of
\* the committed render.
StartInstance(perm) ==
  [pc |-> IF perm = "granted" THEN "opening" ELSE "services",
   cleaned |-> FALSE, enabled |-> FALSE, mode |-> "drive"]

\* Commit of setMode(m) when the new locPerm is perm: nothing when mode is
\* unchanged; else cleanup of the previous effect and run of the next.
CommitMode(m, perm) ==
  IF m = mode THEN eff
  ELSE LET cleaned == Cleanup(eff) IN
       IF m = "drive"
       THEN LET slot == CHOOSE e \in Effects :
                          /\ cleaned[e].pc = "free"
                          /\ \A f \in Effects : cleaned[f].pc = "free" => e <= f
            IN [cleaned EXCEPT ![slot] = StartInstance(perm)]
       ELSE cleaned
CanCommit(m) == m = mode \/ m = "browse" \/ FreeSlots # {}

\* An instance whose async body has finished without a subscription ("noPerm":
\* line 157, "failed": line 189): once its cleanup has run nothing refers to
\* it any more.
Ended(r, how) == IF r.cleaned THEN FreeEffect ELSE [r EXCEPT !.pc = how]

\* ---- startNavigation (lines 108-146) and requestLocationPermission --------

IdleAttempts == {a \in Attempts : att[a].pc = "idle"}

\* Mutant of StartNavigation: Start is offered without a route.
StartNavigationWithoutRoute ==
  /\ mounted /\ mode # "drive"
  /\ IdleAttempts # {}
  /\ LET a == CHOOSE x \in IdleAttempts : \A y \in IdleAttempts : x <= y IN
     /\ att' = [att EXCEPT ![a] =
                  [pc |-> "services", gpsError |-> gpsError,
                   enabled |-> FALSE, granted |-> FALSE, ok |-> FALSE]]
  /\ gpsError' = None
  /\ UNCHANGED <<call, routeName, route, mode, locPerm, location, speedMs,
                 servicesEnabled, loadingGpx, gpxError, mounted, camera, fit,
                 eff, pick, initPerm>>

\* Start button (rendered when route.length > 0 && mode !== 'drive'):
\* setGpsError(null), then requestLocationPermission up to its first await.
StartNavigation ==
  /\ mounted /\ Len(route) > 0 /\ mode # "drive"
  /\ IdleAttempts # {}
  /\ LET a == CHOOSE x \in IdleAttempts : \A y \in IdleAttempts : x <= y IN
     /\ att' = [att EXCEPT ![a] =
                  [pc |-> "services", gpsError |-> gpsError,
                   enabled |-> FALSE, granted |-> FALSE, ok |-> FALSE]]
  /\ gpsError' = None
  /\ UNCHANGED <<call, routeName, route, mode, locPerm, location, speedMs,
                 servicesEnabled, loadingGpx, gpxError, mounted, camera, fit,
                 eff, pick, initPerm>>

\* hasServicesEnabledAsync resolves (lines 54-60).
ServicesResult(a, enabled) ==
  /\ att[a].pc = "services"
  /\ servicesEnabled' = Some(enabled)
  /\ gpsError' = IF ~enabled THEN Some(MsgServicesOff) ELSE gpsError
  /\ att' = [att EXCEPT ![a].pc = "perm", ![a].enabled = enabled]
  /\ UNCHANGED <<call, routeName, route, mode, locPerm, location, speedMs,
                 loadingGpx, gpxError, mounted, camera, fit, eff, pick,
                 initPerm>>

\* requestForegroundPermissionsAsync resolves (lines 60-62).
PermResult(a, status) ==
  /\ att[a].pc = "perm"
  /\ locPerm' = PermOf(status)
  /\ att' = [att EXCEPT ![a].pc = "ret", ![a].granted = (status = "granted"),
                         ![a].ok = PermissionOk(status, att[a].enabled)]
  /\ UNCHANGED <<call, routeName, route, mode, location, speedMs, gpsError,
                 servicesEnabled, loadingGpx, gpxError, mounted, camera, fit,
                 eff, pick, initPerm>>

\* Mutant of StartRejected: the return of line 114 is missing, so a rejected
\* attempt goes on to setMode('drive').
StartRejectedFallsThrough(a) ==
  /\ att[a].pc = "ret" /\ ~att[a].ok
  /\ CanCommit("drive")
  /\ gpsError' = IF att[a].gpsError = None THEN Some(MsgPermissionDenied)
                 ELSE gpsError
  /\ mode' = "drive"
  /\ eff' = CommitMode("drive", locPerm)
  /\ camera' = animateCamera(StartView)
  /\ att' = [att EXCEPT ![a] = IdleAttempt]
  /\ UNCHANGED <<call, routeName, route, locPerm, location, speedMs,
                 servicesEnabled, loadingGpx, gpxError, mounted, fit, pick,
                 initPerm>>

\* startNavigation resumes with ok = false (lines 111-115); gpsError is the
\* value of the closure.
StartRejected(a) ==
  /\ att[a].pc = "ret" /\ ~att[a].ok
  /\ gpsError' = IF att[a].gpsError = None THEN Some(MsgPermissionDenied)
                 ELSE gpsError
  /\ att' = [att EXCEPT ![a] = IdleAttempt]
  /\ UNCHANGED <<call, routeName, route, mode, locPerm, location, speedMs,
                 servicesEnabled, loadingGpx, gpxError, mounted, camera, fit,
                 eff, pick, initPerm>>

\* startNavigation resumes with ok = true (lines 117-145): setMode('drive')
\* and the immediate camera move on the closure's location, else region.
StartAccepted(a) ==
  /\ att[a].pc = "ret" /\ att[a].ok
  /\ CanCommit("drive")
  /\ mode' = "drive"
  /\ eff' = CommitMode("drive", locPerm)
  /\ camera' = animateCamera(StartView)
  /\ att' = [att EXCEPT ![a] = IdleAttempt]
  /\ UNCHANGED <<call, routeName, route, locPerm, location, speedMs, gpsError,
                 servicesEnabled, loadingGpx, gpxError, mounted, fit, pick,
                 initPerm>>

\* Stop button (rendered when mode === 'drive'), lines 104-106.
StopNavigation ==
  /\ mounted /\ mode = "drive"
  /\ mode' = "browse"
  /\ eff' = CommitMode("browse", locPerm)
  /\ UNCHANGED <<call, routeName, route, locPerm, location, speedMs, gpsError,
                 servicesEnabled, loadingGpx, gpxError, mounted, camera, fit,
                 att, pick, initPerm>>

\* ---- the [mode] effect's async body (lines 152-191) --------------------------
\* After teardown the body goes on, but setState is ignored and
\* mapRef.current is null.

Set(cell, v) == IF mounted THEN v ELSE cell

\* requestLocationPermission called from the effect: services query resolves.
EffServicesResult(e, enabled) ==
  /\ eff[e].pc = "services"
  /\ servicesEnabled' = Set(servicesEnabled, Some(enabled))
  /\ gpsError' = IF ~enabled THEN Set(gpsError, Some(MsgServicesOff)) ELSE gpsError
  /\ eff' = [eff EXCEPT ![e].pc = "perm", ![e].enabled = enabled]
  /\ UNCHANGED <<call, routeName, route, mode, locPerm, location, speedMs,
                 loadingGpx, gpxError, mounted, camera, fit, att, pick,
                 initPerm>>

\* ... permission request resolves; if (!hasPerm) return, else
\* watchPositionAsync is called (lines 156-160).
EffPermResult(e, status) ==
  /\ eff[e].pc = "perm"
  /\ locPerm' = Set(locPerm, PermOf(status))
  /\ eff' = [eff EXCEPT ![e] = IF PermissionOk(status, eff[e].enabled)
                               THEN [@ EXCEPT !.pc = "opening"]
                               ELSE Ended(@, "noPerm")]
  /\ UNCHANGED <<call, routeName, route, mode, location, speedMs, gpsError,
                 servicesEnabled, loadingGpx, gpxError, mounted, camera, fit,
                 att, pick, initPerm>>

\* watchPositionAsync resolves: sub = the subscription (line 160), whether or
\* not the cleanup of this instance has already run.
OpenResolved(e) ==
  /\ eff[e].pc = "opening"
  /\ eff' = [eff EXCEPT ![e].pc = "open"]
  /\ UNCHANGED <<call, routeName, route, mode, locPerm, location, speedMs, gpsError,
                 servicesEnabled, loadingGpx, gpxError, mounted, camera, fit,
                 att, pick, initPerm>>

\* Mutant of OpenFailed: the catch also reverts to Browse.
OpenFailedRevertsToBrowse(e) ==
  /\ eff[e].pc = "opening"
  /\ gpsError' = Set(gpsError, Some(MsgGpsError))
  /\ mode' = Set(mode, "browse")
  /\ eff' = LET ended == [eff EXCEPT ![e] = Ended(@, "failed")]
            IN IF mounted /\ mode = "drive" THEN Cleanup(ended) ELSE ended
  /\ UNCHANGED <<call, routeName, route, locPerm, location, speedMs,
                 servicesEnabled, loadingGpx, gpxError, mounted, camera, fit,
                 att, pick, initPerm>>

\* Mutant of OpenFailed: the catch swallows the error.
OpenFailedSwallowed(e) ==
  /\ eff[e].pc = "opening"
  /\ eff' = [eff EXCEPT ![e] = Ended(@, "failed")]
  /\ UNCHANGED <<call, routeName, route, mode, locPerm, location, speedMs, gpsError,
                 servicesEnabled, loadingGpx, gpxError, mounted, camera, fit,
                 att, pick, initPerm>>

\* watchPositionAsync rejects: catch, setGpsError (lines 188-190).
OpenFailed(e) ==
  /\ eff[e].pc = "opening"
  /\ gpsError' = Set(gpsError, Some(MsgGpsError))
  /\ eff' = [eff EXCEPT ![e] = Ended(@, "failed")]
  /\ UNCHANGED <<call, routeName, route, mode, locPerm, location, speedMs,
                 servicesEnabled, loadingGpx, gpxError, mounted, camera, fit,
                 att, pick, initPerm>>

\* Mutant of FixDelivered: the camera is not moved.
FixDeliveredWithoutCamera(e, pos) ==
  /\ eff[e].pc = "open"
  /\ location' = Set(location, Some(pos))
  /\ speedMs' = Set(speedMs, pos.speed)
  /\ UNCHANGED <<call, routeName, route, mode, locPerm, gpsError,
                 servicesEnabled, loadingGpx, gpxError, mounted, camera, fit,
                 att, eff, pick, initPerm>>

\* The subscription of instance e delivers a fix (lines 167-186); mode is the
\* closure's.
FixDelivered(e, pos) ==
  /\ eff[e].pc = "open"
  /\ location' = Set(location, Some(pos))
  /\ speedMs' = Set(speedMs, pos.speed)
  /\ camera' = IF eff[e].mode = "drive" THEN Set(camera, animateCamera(pos))
               ELSE camera
  /\ UNCHANGED <<call, routeName, route, mode, locPerm, gpsError, servicesEnabled,
                 loadingGpx, gpxError, mounted, fit, att, eff, pick, initPerm>>

\* ---- pickGpx (lines 65-102) ------------------------------------------------

\* Load GPX button (disabled while loadingGpx), up to the picker await.
PickGpx ==
  /\ mounted /\ ~loadingGpx /\ pick \notin {"picking", "reading"}
  /\ gpxError' = None
  /\ loadingGpx' = TRUE
  /\ pick' = "picking"
  /\ UNCHANGED <<call, routeName, route, mode, locPerm, location, speedMs, gpsError,
                 servicesEnabled, mounted, camera, fit, att, eff, initPerm>>

\* Mutant of LoadError: no finally.
LoadErrorWithoutFinally(msg) ==
  /\ gpxError' = Some(msg)
  /\ UNCHANGED <<call, routeName, route, mode, locPerm, location, speedMs,
                 gpsError, servicesEnabled, loadingGpx, mounted, camera, fit,
                 att, eff, initPerm>>

\* catch + finally (lines 97-101).
LoadError(msg) ==
  /\ gpxError' = Some(msg)
  /\ loadingGpx' = FALSE
  /\ UNCHANGED <<call, routeName, route, mode, locPerm, location, speedMs, gpsError,
                 servicesEnabled, mounted, camera, fit, att, eff, initPerm>>

\* Mutant of PickCancelled: the canceled test of line 76 is missing, so the
\* missing asset raises.
PickCancelledThrows ==
  /\ pick = "picking"
  /\ pick' = "cancelled"
  /\ LoadError(MsgNoUri)

\* picked.canceled: return; finally (line 76).
PickCancelled ==
  /\ pick = "picking"
  /\ loadingGpx' = FALSE
  /\ pick' = "cancelled"
  /\ UNCHANGED <<call, routeName, route, mode, locPerm, location, speedMs, gpsError,
                 servicesEnabled, gpxError, mounted, camera, fit, att, eff,
                 initPerm>>

\* No asset uri (line 78).
PickNoUri ==
  /\ pick = "picking"
  /\ pick' = "noUri"
  /\ LoadError(MsgNoUri)

\* An asset was picked: readAsStringAsync is called (line 80).
PickAsset ==
  /\ pick = "picking"
  /\ pick' = "reading"
  /\ UNCHANGED <<call, routeName, route, mode, locPerm, location, speedMs, gpsError,
                 servicesEnabled, loadingGpx, gpxError, mounted, camera, fit,
                 att, eff, initPerm>>

\* readAsStringAsync rejects.
ReadFailed ==
  /\ pick = "reading"
  /\ pick' = "readFailed"
  /\ LoadError(MsgLoadFailed)

\* The XML decoder raises inside parseGpxXml (line 82).
DecodeFailed ==
  /\ pick = "reading"
  /\ pick' = "decodeFailed"
  /\ LoadError(MsgLoadFailed)

\* Mutant of LoadNoPoints: the route is replaced before the length test.
LoadNoPointsAfterSetRoute(parsed) ==
  /\ pick = "reading"
  /\ Len(parsed.points) = 0
  /\ pick' = "noPoints"
  /\ routeName' = parsed.name
  /\ route' = parsed.points
  /\ gpxError' = Some(MsgNoPoints)
  /\ loadingGpx' = FALSE
  /\ UNCHANGED <<call, mode, locPerm, location, speedMs, gpsError,
                 servicesEnabled, mounted, camera, fit, att, eff, initPerm>>

\* parseGpxXml returns no points (line 83).
LoadNoPoints(parsed) ==
  /\ pick = "reading"
  /\ Len(parsed.points) = 0
  /\ pick' = "noPoints"
  /\ LoadError(MsgNoPoints)

\* parseGpxXml returns points (lines 85-96): the route is replaced, mode is
\* set to browse and the map is fitted to the new region.
LoadSucceeded(parsed) ==
  /\ pick = "reading"
  /\ Len(parsed.points) > 0
  /\ routeName' = parsed.name
  /\ route' = parsed.points
  /\ mode' = "browse"
  /\ eff' = CommitMode("browse", locPerm)
  /\ fit' = IF boundingRegion(parsed.points) # None
            THEN boundingRegion(parsed.points) ELSE fit
  /\ loadingGpx' = FALSE
  /\ pick' = IF mode = "drive" THEN "loadedLeavingDrive" ELSE "loaded"
  /\ UNCHANGED <<call, locPerm, location, speedMs, gpsError, servicesEnabled,
                 gpxError, mounted, camera, att, initPerm>>

\* ---- mount-time permission effect (lines 201-208) ---------------------------

InitPermResult(status) ==
  /\ initPerm = "perm"
  /\ locPerm' = IF status = "granted" THEN "granted"
                ELSE IF status = "denied" THEN "denied" ELSE "unknown"
  /\ initPerm' = "services"
  /\ UNCHANGED <<call, routeName, route, mode, location, speedMs, gpsError,
                 servicesEnabled, loadingGpx, gpxError, mounted, camera, fit,
                 att, eff, pick>>

InitServicesResult(enabled) ==
  /\ initPerm = "services"
  /\ servicesEnabled' = Some(enabled)
  /\ initPerm' = "done"
  /\ UNCHANGED <<call, routeName, route, mode, locPerm, location, speedMs, gpsError,
                 gpxError, loadingGpx, mounted, camera, fit, att, eff, pick>>

\* ---- teardown ---------------------------------------------------------------

\* NavigatorApp unmounts: the effect cleanup runs.  Later setState calls are
\* ignored, so the continuations of startNavigation, pickGpx and the mount
\* effect have nothing left to act on.
Unmount ==
  /\ mounted
  /\ mounted' = FALSE
  /\ eff' = Cleanup(eff)
  /\ att' = [a \in Attempts |-> IdleAttempt]
  /\ pick' = "idle"
  /\ initPerm' = "done"
  /\ UNCHANGED <<call, routeName, route, mode, locPerm, location, speedMs, gpsError,
                 servicesEnabled, loadingGpx, gpxError, camera, fit>>

Statuses == {"granted", "denied", "undetermined"}

Next ==
  \/ StartNavigation
  \/ \E a \in Attempts, enabled \in BOOLEAN : ServicesResult(a, enabled)
  \/ \E a \in Attempts, status \in Statuses : PermResult(a, status)
  \/ \E a \in Attempts : StartRejected(a)
  \/ \E a \in Attempts : StartAccepted(a)
  \/ StopNavigation
  \/ \E e \in Effects, enabled \in BOOLEAN : EffServicesResult(e, enabled)
  \/ \E e \in Effects, status \in Statuses : EffPermResult(e, status)
  \/ \E e \in Effects : OpenResolved(e)
  \/ \E e \in Effects : OpenFailed(e)
  \/ \E e \in Effects, pos \in Fixes : FixDelivered(e, pos)
  \/ PickGpx
  \/ PickCancelled
  \/ PickNoUri
  \/ PickAsset
  \/ ReadFailed
  \/ DecodeFailed
  \/ \E parsed \in ParsedResults : LoadNoPoints(parsed)
  \/ \E parsed \in ParsedResults : LoadSucceeded(parsed)
  \/ \E status \in Statuses : InitPermResult(status)
  \/ \E enabled \in BOOLEAN : InitServicesResult(enabled)
  \/ Unmount

Spec == Init /\ [][Next]_vars

\* ---- the Drive periods on their own ------------------------------------------

\* The controller without the deliveries of fixes, which change neither mode
\* nor an instance of the effect.
DriveNext ==
  \/ StartNavigation
  \/ \E a \in Attempts, enabled \in BOOLEAN : ServicesResult(a, enabled)
  \/ \E a \in Attempts, status \in Statuses : PermResult(a, status)
  \/ \E a \in Attempts : StartRejected(a)
  \/ \E a \in Attempts : StartAccepted(a)
  \/ StopNavigation
  \/ \E e \in Effects, enabled \in BOOLEAN : EffServicesResult(e, enabled)
  \/ \E e \in Effects, status \in Statuses : EffPermResult(e, status)
  \/ \E e \in Effects : OpenResolved(e)
  \/ \E e \in Effects : OpenFailed(e)
  \/ PickGpx
  \/ PickCancelled
  \/ PickNoUri
  \/ PickAsset
  \/ ReadFailed
  \/ DecodeFailed
  \/ \E parsed \in ParsedResults : LoadNoPoints(parsed)
  \/ \E parsed \in ParsedResults : LoadSucceeded(parsed)
  \/ \E status \in Statuses : InitPermResult(status)
  \/ \E enabled \in BOOLEAN : InitServicesResult(enabled)
  \/ Unmount

\* A promise does not stay pending for ever: a pending watchPositionAsync
\* resolves or rejects.
DriveSpec ==
  /\ Init /\ [][DriveNext]_vars
  /\ \A e \in Effects : WF_vars(OpenResolved(e) \/ OpenFailed(e))

\* ---- parseGpxXml (src/gpx.ts) ------------------------------------------------

MaxPoints == 3        \* points in a track segment or a route

\* JavaScript values as the XML parser hands them over.
Undef == [t |-> "undef"]
Str(s) == [t |-> "str", s |-> s]
Obj(o) == [t |-> "obj", o |-> o]
Arr(items) == [t |-> "arr", items |-> items]
\* Numbers: NaN, the infinities, else a finite value m.
NaN == [k |-> "nan"]
Infinity == [k |-> "inf"]
Fin(m) == [k |-> "fin", m |-> m]

\* A GPX file, as a tree: the metadata element (None: no element; else its
\* name, None: no name element), the trk elements with their trkseg elements,
\* the rte elements.  A point is its lat and lon attributes as written
\* (None: attribute missing).
Attr(lat, lon) == [lat |-> lat, lon |-> lon]
PtA == Attr(Some("2"), Some("2"))
PtB == Attr(Some("4"), Some("6"))
PtBadLat == Attr(Some("abc"), Some("6"))
PtNoLon == Attr(Some("4"), None)
PtEmptyLat == Attr(Some(""), Some("6"))
PtHugeLon == Attr(Some("2"), Some("1e999"))
RawPoints == {PtA, PtB, PtBadLat, PtNoLon, PtEmptyLat, PtHugeLon}
Names(n) == {None, Some(""), Some(n)}

SeqsUpTo(S, n) == UNION {[1..k -> S] : k \in 0..n}
PointSeqs == SeqsUpTo(RawPoints, MaxPoints)
OtherSeg == <<PtB, PtA>>
OtherTrk == [name |-> Some("Second track"), segs |-> <<OtherSeg>>]
OtherRte == [name |-> Some("Second route"), pts |-> <<PtA, PtB>>]
SegSeqs == {<<>>} \cup {<<s>> : s \in PointSeqs}
                  \cup {<<s, OtherSeg>> : s \in PointSeqs}
\* One element, or several, or none.
OneOrMore(S, other) == {<<>>} \cup {<<x>> : x \in S} \cup {<<x, other>> : x \in S}
\* Documents that differ in their points - every track against a few routes,
\* every route against a few tracks - and documents that differ in their names.
Unnamed(pts) == [name |-> None, pts |-> pts]
SomeRoutes == {<<>>, <<Unnamed(<<PtB, PtBadLat>>)>>, <<Unnamed(<<PtA>>), OtherRte>>}
SomeTracks ==
  {<<>>} \cup
  {<<[name |-> None, segs |-> ss]>> :
     ss \in {<<>>, << <<>> >>, << <<PtBadLat, PtNoLon>> >>, << <<PtA>> >>}}
PointDocs ==
  {[meta |-> None, trks |-> ts, rtes |-> rs] :
     ts \in OneOrMore({[name |-> None, segs |-> ss] : ss \in SegSeqs}, OtherTrk),
     rs \in SomeRoutes}
  \cup
  {[meta |-> None, trks |-> ts, rtes |-> rs] :
     ts \in SomeTracks,
     rs \in OneOrMore({Unnamed(s) : s \in PointSeqs}, OtherRte)}
NameDocs ==
  {[meta |-> m, trks |-> ts, rtes |-> rs] :
     m \in {None} \cup {Some(n) : n \in Names("Meta")},
     ts \in OneOrMore({[name |-> n, segs |-> <<<<PtA>>>>] : n \in Names("Track")},
                      OtherTrk),
     rs \in OneOrMore({[name |-> n, pts |-> <<PtB>>] : n \in Names("Route")},
                      OtherRte)}
Docs == PointDocs \cup NameDocs

\* parser.parse(xml) with ignoreAttributes: false, attributeNamePrefix: ''
\* (lines 20-25): a tag that occurs once is a value and one that occurs
\* several times an array; an element with neither attribute nor child is
\* ''; attribute values and the text of a name stay strings.
XmlText(n) == IF n = None THEN Undef ELSE Str(n[1])
XmlElem(fields) ==
  IF \A f \in DOMAIN fields : fields[f].t = "undef" THEN Str("") ELSE Obj(fields)
XmlChildren(elems) ==
  IF Len(elems) = 0 THEN Undef
  ELSE IF Len(elems) = 1 THEN elems[1] ELSE Arr(elems)
XmlPoint(p) == XmlElem([lat |-> XmlText(p.lat), lon |-> XmlText(p.lon)])
XmlPoints(pts) ==
  IF Len(pts) = 0 THEN <<>> ELSE [i \in 1..Len(pts) |-> XmlPoint(pts[i])]
XmlSeg(seg) == XmlElem([trkpt |-> XmlChildren(XmlPoints(seg))])
XmlTrk(trk) ==
  XmlElem([name |-> XmlText(trk.name),
           trkseg |-> XmlChildren(IF Len(trk.segs) = 0 THEN <<>>
                                  ELSE [i \in 1..Len(trk.segs) |->
                                          XmlSeg(trk.segs[i])])])
XmlRte(rte) ==
  XmlElem([name |-> XmlText(rte.name),
           rtept |-> XmlChildren(XmlPoints(rte.pts))])
XMLParse(xml) ==
  Obj([gpx |-> Obj(
    [metadata |-> IF xml.meta = None THEN Undef
                  ELSE XmlElem([name |-> XmlText(xml.meta[1])]),
     trk |-> XmlChildren(IF Len(xml.trks) = 0 THEN <<>>
                         ELSE [i \in 1..Len(xml.trks) |-> XmlTrk(xml.trks[i])]),
     rte |-> XmlChildren(IF Len(xml.rtes) = 0 THEN <<>>
                         ELSE [i \in 1..Len(xml.rtes) |-> XmlRte(xml.rtes[i])])])])

\* A name as ParsedGpx carries it: None for undefined, else Some(text).
XmlNameOf(v) == IF v.t = "str" THEN Some(v.s) ELSE None

\* v?.f: undefined unless v is an object that has f.
Get(v, f) == IF v.t = "obj" /\ f \in DOMAIN v.o THEN v.o[f] ELSE Undef
\* a ?? b
Coalesce(a, b) == IF a.t = "undef" THEN b ELSE a
\* !v is true of undefined and of ''.
Falsy(v) == v.t = "undef" \/ (v.t = "str" /\ v.s = "")
\* array[0]
First(items) == IF Len(items) = 0 THEN Undef ELSE items[1]

\* Number(v) on an attribute value: NaN for undefined and for text that is no
\* numeral, 0 for '', Infinity for a numeral beyond the range of a double.
Number(v) ==
  IF v.t # "str" THEN NaN
  ELSE CASE v.s = "" -> Fin(0)
         [] v.s = "2" -> Fin(2)
         [] v.s = "4" -> Fin(4)
         [] v.s = "6" -> Fin(6)
         [] v.s = "1e999" -> Infinity
         [] OTHER -> NaN
IsFinite(x) == x.k = "fin"

\* Mutant of asArray: a single value is not wrapped.
asArrayOnlyArrays(v) == IF Falsy(v) \/ v.t # "arr" THEN <<>> ELSE v.items

\* asArray (lines 10-13).
asArray(v) == IF Falsy(v) THEN <<>> ELSE IF v.t = "arr" THEN v.items ELSE <<v>>

\* Mutant of ToLatLng: only lat is tested.
ToLatLngLatOnly(p) ==
  LET lat == Number(Get(p, "lat"))
      lon == Number(Get(p, "lon"))
  IN IF ~IsFinite(lat) THEN None
     ELSE Some([latitude |-> lat.m,
                longitude |-> IF IsFinite(lon) THEN lon.m ELSE 0])

\* The map callback (lines 36-41, 50-55): null, else the point.
ToLatLng(p) ==
  LET lat == Number(Get(p, "lat"))
      lon == Number(Get(p, "lon"))
  IN IF ~IsFinite(lat) \/ ~IsFinite(lon) THEN None
     ELSE Some([latitude |-> lat.m, longitude |-> lon.m])

\* pts.map(...).filter(Boolean)
RECURSIVE MapFilter(_)
MapFilter(pts) ==
  IF Len(pts) = 0 THEN <<>>
  ELSE LET q == ToLatLng(pts[1]) IN
       IF q = None THEN MapFilter(Tail(pts))
       ELSE <<q[1]>> \o MapFilter(Tail(pts))

\* Mutant of parseGpxXml: the points of the route are appended to those of
\* the track.
parseGpxXmlMerging(xml) ==
  LET gpx == Get(XMLParse(xml), "gpx")
      name == Coalesce(Coalesce(Get(Get(gpx, "metadata"), "name"),
                                Get(Get(gpx, "trk"), "name")),
                       Get(Get(gpx, "rte"), "name"))
      seg == First(asArray(Get(First(asArray(Get(gpx, "trk"))), "trkseg")))
      rte == First(asArray(Get(gpx, "rte")))
  IN [name |-> XmlNameOf(name),
      points |-> MapFilter(asArray(Get(seg, "trkpt")))
                   \o MapFilter(asArray(Get(rte, "rtept")))]

\* parseGpxXml (lines 19-59).  The name is handed on as None (undefined) or
\* Some(text).
parseGpxXml(xml) ==
  LET doc == XMLParse(xml)
      gpx == Get(doc, "gpx")
      name == Coalesce(Coalesce(Get(Get(gpx, "metadata"), "name"),
                                Get(Get(gpx, "trk"), "name")),
                       Get(Get(gpx, "rte"), "name"))
      trk == First(asArray(Get(gpx, "trk")))
      seg == First(asArray(Get(trk, "trkseg")))
      trkpts == asArray(Get(seg, "trkpt"))
      pointsFromTrk == MapFilter(trkpts)
      rte == First(asArray(Get(gpx, "rte")))
      rtepts == asArray(Get(rte, "rtept"))
      pointsFromRte == MapFilter(rtepts)
  IN IF Len(pointsFromTrk) # 0
     THEN [name |-> XmlNameOf(name), points |-> pointsFromTrk]
     ELSE [name |-> XmlNameOf(name), points |-> pointsFromRte]

\* parseGpxXml is applied to one document.
ParseInit ==
  /\ Mounted
  /\ call \in {[fn |-> "parseGpxXml", arg |-> Some(xml), ret |-> None] :
                 xml \in Docs}
ParseReturns ==
  /\ call.fn = "parseGpxXml" /\ call.ret = None
  /\ call' = [call EXCEPT !.ret = Some(parseGpxXml(call.arg[1]))]
  /\ UNCHANGED <<routeName, route, mode, locPerm, location, speedMs, gpsError,
                 servicesEnabled, loadingGpx, gpxError, mounted, camera, fit,
                 att, eff, pick, initPerm>>
ParseSpec == ParseInit /\ [][ParseReturns]_vars

\* ---- boundingRegion on its own ---------------------------------------------------

MaxRoutePoints == 3   \* points handed to boundingRegion

RoutePoints ==
  {[latitude |-> lat, longitude |-> lon] : lat \in {-3, 0, 2}, lon \in {-1, 4}}
Routes == SeqsUpTo(RoutePoints, MaxRoutePoints)

\* boundingRegion is applied to one sequence of points.
RegionInit ==
  /\ Mounted
  /\ call \in {[fn |-> "boundingRegion", arg |-> Some(points), ret |-> None] :
                 points \in Routes}
RegionReturns ==
  /\ call.fn = "boundingRegion" /\ call.ret = None
  /\ call' = [call EXCEPT !.ret = Some(boundingRegion(call.arg[1]))]
  /\ UNCHANGED <<routeName, route, mode, locPerm, location, speedMs, gpsError,
                 servicesEnabled, loadingGpx, gpxError, mounted, camera, fit,
                 att, eff, pick, initPerm>>
RegionSpec == RegionInit /\ [][RegionReturns]_vars

\* ---- fmtSpeed (App.tsx, lines 13-22) ---------------------------------------------

MaxSpeedSteps == 60   \* speeds run from -MaxSpeedSteps to MaxSpeedSteps quarters of a m/s
MaxDouble == 1000000  \* the greatest finite number (Number.MAX_VALUE), in hundredths

NegInfinity == [k |-> "ninf"]
\* Speeds and their products are in hundredths (of a m/s, of a km/h); the
\* speeds taken are multiples of 0.25 m/s, of which 3.6 times is exact.
Speeds ==
  {NaN, Infinity, NegInfinity, Fin(MaxDouble), Fin(-MaxDouble)}
    \cup {Fin(25 * i) : i \in -MaxSpeedSteps..MaxSpeedSteps}

\* kmh: ms * 3.6, which is infinite beyond the greatest finite number.
kmh(ms) ==
  IF ~IsFinite(ms) THEN ms
  ELSE LET v == (ms.m * 36) \div 10 IN
       IF v > MaxDouble THEN Infinity
       ELSE IF v < -MaxDouble THEN NegInfinity ELSE Fin(v)

\* Math.round: the nearest integer, a half goes up.
MathRound(v) == (v.m + 50) \div 100

\* The text of line 18, an em dash (U+2014).
EmDash == "--"

\* fmtSpeed; ms is None for null or undefined.
fmtSpeed(ms) ==
  IF ms = None \/ ~IsFinite(ms[1]) THEN EmDash
  ELSE LET v == kmh(ms[1]) IN
       IF ~IsFinite(v) \/ v.m < 0 THEN "0"
       ELSE ToString(MathRound(v))

\* fmtSpeed is applied to one speed.
FmtInit ==
  /\ Mounted
  /\ call \in {[fn |-> "fmtSpeed", arg |-> ms, ret |-> None] :
                 ms \in {None} \cup {Some(x) : x \in Speeds}}
FmtReturns ==
  /\ call.fn = "fmtSpeed" /\ call.ret = None
  /\ call' = [call EXCEPT !.ret = Some(fmtSpeed(call.arg))]
  /\ UNCHANGED <<routeName, route, mode, locPerm, location, speedMs, gpsError,
                 servicesEnabled, loadingGpx, gpxError, mounted, camera, fit,
                 att, eff, pick, initPerm>>
FmtSpec == FmtInit /\ [][FmtReturns]_vars

\* ---- steps and observations used by the properties -------------------------

\* Subscriptions that are open: watchPositionAsync resolved, remove() not called.
OpenSubs == {e \in Effects : eff[e].pc = "open"}

\* startNavigation invocation a resumes after requestLocationPermission and
\* finishes.
Finishes(a) == att[a].pc = "ret" /\ att'[a].pc = "idle" /\ mounted'
\* Both checks of invocation a were reported positive.
ChecksPassed(a) == att[a].enabled /\ att[a].granted
\* Invocation a takes a step (one of its continuations runs).
AttemptStep(a) == att[a].pc # "idle" /\ att'[a] # att[a] /\ mounted'
\* watchPositionAsync of instance e rejects.
OpenFails(e) == eff[e].pc = "opening" /\ eff'[e].pc \in {"failed", "free"}

\* C1: mode becomes Drive only in the finishing step of a start-navigation
\* attempt whose services check reported enabled and whose permission request
\* reported granted; the finishing step of an attempt with a negative check
\* leaves mode as it is (Browse stays Browse).
C1_DriveOnlyAfterBothChecks ==
  [][ /\ (mode' = "drive" /\ mode # "drive")
          => \E a \in Attempts : Finishes(a) /\ ChecksPassed(a)
      /\ \A a \in Attempts :
           Finishes(a) /\ ~ChecksPassed(a)
             => mode' = mode /\ (mode = "browse" => mode' = "browse")
  ]_vars

\* C1 witness: Drive has been entered.
C1_Witness == mounted /\ mode = "drive" /\ locPerm = "granted"
              /\ servicesEnabled = Some(TRUE)

\* C2: no step of a start-navigation attempt to which location services were
\* reported disabled changes mode, starts an effect instance or opens a
\* subscription, whatever the permission request answers; the attempt begins
\* in Browse (Start is not offered in Drive).
C2_ServicesOffKeepsBrowse ==
  [][ /\ \A a \in Attempts :
           AttemptStep(a) /\ (att[a].pc \in {"perm", "ret"} \/ att'[a].pc = "perm")
             /\ ~(IF att[a].pc = "services" THEN att'[a].enabled ELSE att[a].enabled)
             => /\ mode' = mode
                /\ eff' = eff
                /\ OpenSubs' = OpenSubs
      /\ \A a \in Attempts :
           att[a].pc = "idle" /\ att'[a].pc # "idle" => mode = "browse"
  ]_vars

\* C2 witness: an attempt that was told services are off, with permission
\* granted, has run its checks and mode is Browse with nothing open.
C2_Witness ==
  \E a \in Attempts :
    /\ att[a].pc = "ret" /\ ~att[a].enabled /\ att[a].granted
    /\ mode = "browse" /\ OpenSubs = {} /\ eff = [e \in Effects |-> FreeEffect]

\* C3 (as claimed): at most one live-position subscription is open, and one is
\* open only while the controller is mounted and in Drive.
C3_AtMostOneSubscriptionInDrive ==
  /\ Cardinality(OpenSubs) <= 1
  /\ OpenSubs # {} => mounted /\ mode = "drive"

\* C4 (as claimed): while Drive is left (mode is Browse, or the controller is
\* torn down) no step updates the retained fix or the speed or issues a camera
\* command.
C4_NoUpdatesOutsideDrive ==
  [][ (mode = "browse" \/ ~mounted) /\ mode' = mode /\ mounted' = mounted
        => location' = location /\ speedMs' = speedMs /\ camera' = camera
  ]_vars

\* C5 (as claimed): a start-navigation attempt whose check failed finishes
\* with mode Browse and a GPS error surfaced.
C5_RejectedAttemptSurfacesError ==
  [][ \A a \in Attempts :
        Finishes(a) /\ ~ChecksPassed(a)
          => mode' = "browse" /\ gpsError' # None
  ]_vars

\* C6 (as claimed): an attempt to which services were reported disabled
\* finishes with the service-disabled message surfaced; the generic message
\* is what an attempt finishes with only when services were reported enabled.
C6_ServicesOffMessageWins ==
  [][ \A a \in Attempts :
        Finishes(a) /\ ~ChecksPassed(a)
          => /\ ~att[a].enabled => gpsError' = Some(MsgServicesOff)
             /\ gpsError' = Some(MsgPermissionDenied) => att[a].enabled
  ]_vars

\* pickGpx ends with the route replaced.
LoadSucceeds == pick = "reading" /\ pick' \in {"loaded", "loadedLeavingDrive"}
\* The Stop button: nothing but mode and the effect instances changes.
UserStops ==
  /\ mode = "drive" /\ mode' = "browse"
  /\ UNCHANGED <<call, routeName, route, locPerm, location, speedMs, gpsError,
                 servicesEnabled, loadingGpx, gpxError, mounted, camera, fit,
                 att, pick, initPerm>>
\* A start-navigation attempt whose checks passed finishes.
StartSucceeds == \E a \in Attempts : Finishes(a) /\ ChecksPassed(a)

\* C7 (as claimed): mode changes from Browse to Drive only by a successful
\* start-navigation and from Drive to Browse only by user stop; a successful
\* file load is a Browse-to-Browse transition.
C7_ModeChangesOnlyByStartOrStop ==
  [][ /\ mode' # mode => \/ mode' = "drive" /\ StartSucceeds
                         \/ UserStops
      /\ LoadSucceeds => mode = "browse" /\ mode' = "browse"
  ]_vars

\* C7 (amended): mode changes from Browse to Drive only by a successful
\* start-navigation, and from Drive to Browse only by user stop or by a
\* successful file load; no other step changes mode, and a successful file
\* load always ends in Browse.
C7_ModeChangesOnlyByStartStopOrLoad ==
  [][ /\ mode' # mode => \/ mode' = "drive" /\ StartSucceeds
                         \/ UserStops
                         \/ mode' = "browse" /\ LoadSucceeds
      /\ LoadSucceeds => mode' = "browse"
  ]_vars

\* C7 witness: a file load succeeded while in Drive and the mode is Browse.
C7_Witness == pick = "loadedLeavingDrive" /\ mode = "browse" /\ mounted

\* C8: the step in which pickGpx fails on the XML decoder raising or on zero
\* parsed points sets gpxError and leaves route, route name and mode as they
\* are.
C8_FailedLoadKeepsRoute ==
  [][ (pick \in {"picking", "reading"} /\ pick' \in {"decodeFailed", "noPoints"})
        => /\ gpxError' # None
           /\ route' = route /\ routeName' = routeName /\ mode' = mode
  ]_vars

\* C8 witness: a load found zero points while a route was loaded.
C8_Witness ==
  /\ pick = "noPoints" /\ gpxError = Some(MsgNoPoints)
  /\ route # <<>> /\ ~loadingGpx

\* C9: neither the invocation of pickGpx nor its end on a cancelled picker
\* changes route, route name, mode, the effect instances and their
\* subscriptions or the GPS error, and the cancelled pickGpx ends with no load
\* error.
C9_CancelChangesNothing ==
  [][ ( \/ pick = "picking" /\ pick' = "cancelled"
        \/ pick # "picking" /\ pick' = "picking" )
        => /\ route' = route /\ routeName' = routeName /\ mode' = mode
           /\ eff' = eff /\ OpenSubs' = OpenSubs /\ gpsError' = gpsError
           /\ pick' = "cancelled" => gpxError' = None
  ]_vars

\* C9 witness: the picker was cancelled during Drive with the subscription
\* open and a route loaded.
C9_Witness ==
  /\ pick = "cancelled" /\ gpxError = None /\ route # <<>>
  /\ mode = "drive" /\ OpenSubs # {}

\* C10: when watchPositionAsync rejects (controller mounted), a GPS error is
\* set, mode is unchanged - Drive stays Drive for the instance of the current
\* Drive period - and the instance holds no subscription; no subscription is
\* opened or closed by the failure.
C10_OpenFailureStaysInDrive ==
  [][ \A e \in Effects :
        OpenFails(e) /\ mounted
          => /\ gpsError' # None
             /\ mode' = mode
             /\ ~eff[e].cleaned => mode' = "drive" /\ eff'[e].pc = "failed"
             /\ e \notin OpenSubs' /\ OpenSubs' = OpenSubs
  ]_vars

\* C10 witness: the open failed in Drive: error surfaced, still Drive, nothing
\* open.
C10_Witness ==
  \E e \in Effects :
    /\ eff[e].pc = "failed" /\ mode = "drive"
    /\ gpsError = Some(MsgGpsError) /\ OpenSubs = {}

\* ---- parseGpxXml: what a document holds ---------------------------------------

\* An attribute parses as a finite number (numeric coercion: '' counts as 0).
ParsesFinite(a) == a # None /\ IsFinite(Number(Str(a[1])))
ValidPoint(p) == ParsesFinite(p.lat) /\ ParsesFinite(p.lon)
\* The valid points of a sequence of trkpt or rtept elements, in document
\* order, as coordinates.
ValidPoints(pts) ==
  LET kept == SelectSeq(pts, ValidPoint) IN
  IF Len(kept) = 0 THEN <<>>
  ELSE [i \in 1..Len(kept) |->
          [latitude |-> Number(Str(kept[i].lat[1])).m,
           longitude |-> Number(Str(kept[i].lon[1])).m]]
\* The track-points of the first segment of the first track, the route-points
\* of the first route.
FirstSegment(xml) ==
  IF Len(xml.trks) > 0 /\ Len(xml.trks[1].segs) > 0
  THEN xml.trks[1].segs[1] ELSE <<>>
FirstRoute(xml) == IF Len(xml.rtes) > 0 THEN xml.rtes[1].pts ELSE <<>>
\* parseGpxXml has returned.
Parsed == call.fn = "parseGpxXml" /\ call.ret # None
Xml == call.arg[1]
Result == call.ret[1]

\* C11: for a document whose first track segment has at least one valid
\* track-point, parseGpxXml returns exactly the valid track-points of that
\* segment, and so no route-point, whatever route the document has.
C11_TrackTakesPrecedence ==
  Parsed /\ ValidPoints(FirstSegment(Xml)) # <<>>
    => Result.points = ValidPoints(FirstSegment(Xml))

\* C11 witness: a document with a valid track-point and a different, non-empty
\* route was parsed to its track-points.
C11_Witness ==
  /\ Parsed
  /\ ValidPoints(FirstSegment(Xml)) # <<>>
  /\ ValidPoints(FirstRoute(Xml)) # <<>>
  /\ ValidPoints(FirstRoute(Xml)) # ValidPoints(FirstSegment(Xml))
  /\ Result.points = ValidPoints(FirstSegment(Xml))

\* C12: of the sequence of points it reads (the track-points of the first
\* segment, or the route-points of the first route) parseGpxXml discards
\* exactly the points whose lat or lon does not parse as a finite number: the
\* result has one point for each other point, with its coordinates, in
\* document order.
C12_InvalidPointsDropped ==
  Parsed =>
    \E src \in {FirstSegment(Xml), FirstRoute(Xml)} :
      LET kept == {i \in 1..Len(src) : ValidPoint(src[i])}
          pos(i) == Cardinality({j \in kept : j <= i})
      IN /\ Len(Result.points) = Cardinality(kept)
         /\ \A i \in kept :
              /\ Result.points[pos(i)].latitude = Number(Str(src[i].lat[1])).m
              /\ Result.points[pos(i)].longitude = Number(Str(src[i].lon[1])).m

\* C12 witness: a segment with an invalid point before a valid one was parsed
\* to the valid one alone.
C12_Witness ==
  /\ Parsed
  /\ Len(FirstSegment(Xml)) = 2
  /\ ~ValidPoint(FirstSegment(Xml)[1]) /\ ValidPoint(FirstSegment(Xml)[2])
  /\ Len(Result.points) = 1

\* C13: when the first track segment yields no valid point, parseGpxXml
\* returns the valid route-points of the first route in document order; a
\* document with neither track nor route gives no point.
C13_RouteFallback ==
  Parsed =>
    /\ ValidPoints(FirstSegment(Xml)) = <<>>
         => Result.points = ValidPoints(FirstRoute(Xml))
    /\ Xml.trks = <<>> /\ Xml.rtes = <<>> => Result.points = <<>>

\* C13 witness: a document whose first segment has only invalid points was
\* parsed to the one valid point of the two its route has.
C13_Witness ==
  /\ Parsed
  /\ FirstSegment(Xml) # <<>> /\ ValidPoints(FirstSegment(Xml)) = <<>>
  /\ Len(FirstRoute(Xml)) = 2 /\ Len(Result.points) = 1

\* The name the document gives: the first that is present and not empty of
\* the metadata name, the name of the first track, the name of the first
\* route; None when there is none.
NonEmpty(n) == n # None /\ n[1] # ""
DocName(xml) ==
  LET meta == IF xml.meta = None THEN None ELSE xml.meta[1]
      trk == IF Len(xml.trks) = 0 THEN None ELSE xml.trks[1].name
      rte == IF Len(xml.rtes) = 0 THEN None ELSE xml.rtes[1].name
  IN IF NonEmpty(meta) THEN meta
     ELSE IF NonEmpty(trk) THEN trk
     ELSE IF NonEmpty(rte) THEN rte ELSE None

\* C14 (as claimed): the name parseGpxXml returns is the first non-empty of
\* metadata name, track name and route name, and it is absent (or empty) only
\* when all three are absent or empty.
C14_FirstNonEmptyName ==
  Parsed =>
    (IF NonEmpty(Result.name) THEN Result.name ELSE None) = DocName(Xml)

\* ---- boundingRegion: what a region is to be -------------------------------------

\* boundingRegion has returned.
Bounded == call.fn = "boundingRegion" /\ call.ret # None
\* The least and the greatest of a set of coordinates.
Least(S) == CHOOSE x \in S : \A y \in S : x <= y
Greatest(S) == CHOOSE x \in S : \A y \in S : x >= y
Lats(points) == {points[i].latitude : i \in 1..Len(points)}
Lons(points) == {points[i].longitude : i \in 1..Len(points)}
\* max(0.01, 1.4 * (hi - lo)) in hundredths of a degree.
PaddedSpan(lo, hi) == IF 140 * (hi - lo) >= 1 THEN 140 * (hi - lo) ELSE 1

\* C15: boundingRegion returns nothing for an empty sequence of points; for a
\* sequence with at least one point it returns a region whose center lies
\* within [min, max] of the points on each axis and whose span on each axis is
\* max(0.01, 1.4 * (max - min)).
C15_RegionCoversPoints ==
  Bounded =>
    LET points == call.arg[1]
        region == call.ret[1]
    IN IF Len(points) = 0 THEN region = None
       ELSE /\ region # None
            /\ 100 * Least(Lats(points)) <= region[1].latitude
            /\ region[1].latitude <= 100 * Greatest(Lats(points))
            /\ 100 * Least(Lons(points)) <= region[1].longitude
            /\ region[1].longitude <= 100 * Greatest(Lons(points))
            /\ region[1].latitudeDelta =
                 PaddedSpan(Least(Lats(points)), Greatest(Lats(points)))
            /\ region[1].longitudeDelta =
                 PaddedSpan(Least(Lons(points)), Greatest(Lons(points)))

\* C15 witness: three points whose least latitude is not the first, all on
\* one meridian: the latitude span is padded, the longitude span is the floor.
C15_Witness ==
  /\ Bounded
  /\ Len(call.arg[1]) = 3
  /\ call.arg[1][2].latitude < call.arg[1][1].latitude
  /\ call.arg[1][1].latitude < call.arg[1][3].latitude
  /\ Cardinality(Lons(call.arg[1])) = 1
  /\ call.ret[1] # None
  /\ call.ret[1][1].latitudeDelta = 700
  /\ call.ret[1][1].longitudeDelta = 1

\* ---- fmtSpeed: what is displayed ------------------------------------------------

\* C16 (as claimed): fmtSpeed returns the unknown marker for a missing, NaN or
\* infinite input, "0" for a negative finite input, and for every other input
\* the integer nearest to 3.6 times the input, as a string.
C16_SpeedText ==
  call.fn = "fmtSpeed" /\ call.ret # None =>
    LET ms == call.arg
        text == call.ret[1]
    IN IF ms = None \/ ms[1].k \in {"nan", "inf", "ninf"} THEN text = EmDash
       ELSE IF ms[1].m < 0 THEN text = "0"
       ELSE LET n == (36 * ms[1].m + 500) \div 1000 IN
            /\ 2 * (1000 * n - 36 * ms[1].m) <= 1000
            /\ 2 * (36 * ms[1].m - 1000 * n) <= 1000
            /\ text = ToString(n)

\* ---- live updates, the route in Drive, the loading flag --------------------------

\* C17: while the controller is in Drive, each fix a subscription delivers is
\* processed in one step of its own, which issues one camera command centered
\* on that fix and replaces the retained fix and the speed by those of that
\* fix, so that the fix retained is the one delivered last.
C17_EachFixMovesCameraOnce ==
  [][ \A e \in Effects, pos \in Fixes :
        (mounted /\ mode = "drive" /\ FixDelivered(e, pos))
          => /\ camera'.flip # camera.flip
             /\ camera'.center = Some(Center(pos))
             /\ location' = Some(pos)
             /\ speedMs' = pos.speed
  ]_vars

\* C17 witness: in Drive with a subscription open, the fix without speed is
\* the one retained and the camera is centered on it.
C17_Witness ==
  /\ mounted /\ mode = "drive" /\ OpenSubs # {}
  /\ location # None /\ location[1].speed = None /\ speedMs = None
  /\ camera.center = Some(Center(location[1]))

\* C19: whenever mode is Drive the route is not empty.
C19_DriveHasRoute == mode = "drive" => Len(route) > 0

\* C19 witness: Drive, after a file load that found no points.
C19_Witness ==
  /\ mounted /\ mode = "drive" /\ Len(route) > 0
  /\ pick = "noPoints" /\ gpxError = Some(MsgNoPoints)

\* C20: while the controller is mounted the loading flag is true exactly while
\* an invocation of pickGpx is in progress: every invocation that has
\* finished, however it ended, has left it false.
C20_LoadingOnlyWhileInProgress ==
  mounted => (loadingGpx <=> pick \in {"picking", "reading"})

\* C20 witness: a load that failed on reading the file has finished and the
\* flag is false.
C20_Witness == mounted /\ pick = "readFailed" /\ ~loadingGpx

\* ---- subscriptions of a Drive period -------------------------------------------------

\* Instance e belongs to the current Drive period (its cleanup has not run) and
\* has called watchPositionAsync, which is pending.
Opening(e) == eff[e].pc = "opening" /\ ~eff[e].cleaned
\* Instances whose cleanup has not run.
Current == {e \in Effects : eff[e].pc # "free" /\ ~eff[e].cleaned}

\* C18: every entry into Drive starts an instance of the effect of its own,
\* which holds no subscription yet, and no instance of an earlier Drive period
\* is taken over; and once the instance of a Drive period has called
\* watchPositionAsync, its own subscription is eventually open, unless the
\* call fails or Drive is left first.
C18_EachDriveOpensItsOwn ==
  /\ [][ (mode # "drive" /\ mode' = "drive")
           => \E e \in Effects :
                /\ eff[e].pc = "free"
                /\ eff'[e].pc \in {"opening", "services"}
                /\ Current' = {e}
     ]_vars
  /\ \A e \in Effects :
       Opening(e) ~> \/ eff[e].pc = "open"
                     \/ eff[e].pc = "failed"
                     \/ eff[e].cleaned

\* C18 witness: Drive was entered again after a stop, and the subscription
\* open is that of the second instance, the first being free again.
C18_Witness ==
  /\ mounted /\ mode = "drive"
  /\ eff[1].pc = "free" /\ eff[2].pc = "open" /\ ~eff[2].cleaned

====
